---- MODULE Spec2Model ----
(***************************************************************************)
(* The research route of the prospect research tool                        *)
(* (src/src/app/api/research/route.ts): one POST request, from the parsing *)
(* of its body to its JSON response, against third-party servers whose     *)
(* answers are chosen nondeterministically.                                *)
(*                                                                         *)
(* Strings are sequences of tokens.  A token is a run of characters that   *)
(* no pattern of the code splits: every regular expression and every       *)
(* substring test of the code is a test on whole tokens.  The tokens "/",  *)
(* "?", "#", "." and " " are single characters, so "https://acme.com" is   *)
(* <<"https:", "/", "/", "acme", ".", "com">>.                             *)
(***************************************************************************)
EXTENDS Integers, Sequences, FiniteSets, TLC

\* null and undefined, by the type of the value that may be absent: a name,
\* a string, a number, an object.
None == "none"
NoString == <<"<undefined>">>
Null == 0 - 1
NoObject == [undefined |-> TRUE]

\* ------------------------------------------------------------------------
\* Strings

\* String.prototype.toLowerCase / the i flag, token by token.
Lower(tok) ==
  CASE tok = "Acme" -> "acme"
    [] tok = "Greenhouse" -> "greenhouse"
    [] tok = "Careers" -> "careers"
    [] tok = "Jobs" -> "jobs"
    [] tok = "Join" -> "join"
    [] tok = "WWW" -> "www"
    [] OTHER -> tok

LowerStr(s) == [k \in 1..Len(s) |-> Lower(s[k])]

\* charAt(0).toUpperCase() + slice(1) of a label.
Capitalize(tok) ==
  CASE tok = "acme" -> "Acme"
    [] tok = "greenhouse" -> "Greenhouse"
    [] OTHER -> tok

\* p occurs in s at offset k (0-based).
OccursAt(s, p, k) ==
  /\ k + Len(p) <= Len(s)
  /\ \A j \in 1..Len(p) : s[k + j] = p[j]

\* String.prototype.includes(p), and RegExp.test for a literal pattern.
Includes(s, p) == \E k \in 0..Len(s) : OccursAt(s, p, k)

\* RegExp.test for a literal pattern with the i flag.

StartsWith(s, p) == OccursAt(s, p, 0)

\* The number of characters of a string.
RECURSIVE Length(_)
Length(s) == IF s = <<>> THEN 0 ELSE Len(Head(s)) + Length(Tail(s))

\* String.prototype.trim.
RECURSIVE TrimLeft(_)
TrimLeft(s) == IF s # <<>> /\ Head(s) = " " THEN TrimLeft(Tail(s)) ELSE s

RECURSIVE TrimRight(_)
TrimRight(s) ==
  IF s # <<>> /\ s[Len(s)] = " " THEN TrimRight(SubSeq(s, 1, Len(s) - 1)) ELSE s

Trim(s) == TrimRight(TrimLeft(s))

\* The concatenation of a sequence of strings.
RECURSIVE Concat(_)
Concat(ss) == IF ss = <<>> THEN <<>> ELSE Head(ss) \o Concat(Tail(ss))

\* ------------------------------------------------------------------------
\* URLs

Schemes == {"http:", "https:"}
Delims == {"/", "?", "#"}

\* The tokens a host name may hold: a host with any other token does not parse.
HostTokens ==
  {".", "www", "acme", "other", "com", "io", "co", "boards", "job-", "greenhouse",
   "jobs", "lever", "ashbyhq", "api", "boards-api", "workable", "apply"}

\* The number of tokens of s, from its token `from` on, before the first
\* token of set D.
RECURSIVE RunLen(_, _, _)
RunLen(s, from, D) ==
  IF from > Len(s) \/ s[from] \in D THEN 0 ELSE 1 + RunLen(s, from + 1, D)

\* new URL(s): the parsed URL, or NoObject when the constructor throws.
ParseUrl(s) ==
  IF ~(Len(s) >= 3 /\ s[1] \in Schemes /\ s[2] = "/" /\ s[3] = "/") THEN NoObject
  ELSE LET n == RunLen(s, 4, Delims)
           host == LowerStr(SubSeq(s, 4, n + 3))
       IN IF n = 0 \/ \E k \in 1..n : host[k] \notin HostTokens
            THEN NoObject
            ELSE [protocol |-> s[1],
                  hostname |-> host,
                  rest |-> SubSeq(s, n + 4, Len(s))]

\* URL.href of a parsed URL: an empty path is "/".
Href(u) ==
  <<u.protocol, "/", "/">> \o u.hostname
    \o (IF u.rest = <<>> \/ u.rest[1] # "/" THEN <<"/">> ELSE <<>>) \o u.rest

\* The absolute form of a link found on a page of origin base (a scheme
\* and a host, no path): the link itself when it has a scheme, the base's
\* scheme in front of a "//host/..." link, else the link on the base's host.
Absolute(link, base) ==
  IF link # <<>> /\ link[1] \in Schemes THEN link
  ELSE IF Len(link) >= 2 /\ link[1] = "/" /\ link[2] = "/" THEN <<base[1]>> \o link
  ELSE IF link # <<>> /\ link[1] = "/" THEN base \o link
  ELSE base \o <<"/">> \o link

HrefOf(u) == IF u = NoObject THEN NoString ELSE Href(u)

\* new URL(link, base).href, or NoString when the constructor throws.
Resolve(link, base) == HrefOf(ParseUrl(Absolute(link, base)))

\* hostname.replace(/^www\./, "")
StripWww(host) ==
  IF StartsWith(host, <<"www", ".">>) THEN SubSeq(host, 3, Len(host)) ELSE host

\* ------------------------------------------------------------------------
\* The ATS fingerprint table

ATS_PATTERNS ==
  << [name |-> "Greenhouse",
      patterns |-> << <<"boards", ".", "greenhouse", ".", "io">>,
                      <<"job-", "boards", ".", "greenhouse", ".", "io">>,
                      <<"greenhouse", ".", "io">> >>],
     [name |-> "Lever",
      patterns |-> << <<"jobs", ".", "lever", ".", "co">>, <<"lever", ".", "co">> >>],
     [name |-> "Workday",
      patterns |-> << <<"my", "workday", "jobs", ".", "com">>,
                      <<"my", "workday", "site", ".", "com">>,
                      <<"workday", ".", "com">> >>],
     [name |-> "Ashby",
      patterns |-> << <<"jobs", ".", "ashbyhq", ".", "com">>,
                      <<"ashbyhq", ".", "com">> >>],
     [name |-> "SmartRecruiters",
      patterns |-> << <<"jobs", ".", "smartrecruiters", ".", "com">>,
                      <<"smartrecruiters", ".", "com">> >>],
     [name |-> "BambooHR", patterns |-> << <<"bamboohr", ".", "com">> >>],
     [name |-> "Teamtailor", patterns |-> << <<"teamtailor", ".", "com">> >>],
     [name |-> "iCIMS", patterns |-> << <<"icims", ".", "com">> >>],
     [name |-> "Recruitee", patterns |-> << <<"recruitee", ".", "com">> >>],
     [name |-> "Pinpoint", patterns |-> << <<"pinpointhq", ".", "com">> >>],
     [name |-> "Workable",
      patterns |-> << <<"apply", ".", "workable", ".", "com">>,
                      <<"workable", ".", "com">> >>],
     [name |-> "JazzHR",
      patterns |-> << <<"applytojob", ".", "com">>, <<"jazz", "hr", ".", "com">> >>],
     [name |-> "Breezy HR", patterns |-> << <<"breezy", ".", "hr">> >>] >>

CAREERS_PATHS ==
  << <<"/", "careers">>, <<"/", "jobs">>, <<"/", "join">>, <<"/", "join-us">>,
     <<"/", "work-with-us">>, <<"/", "open-positions">>, <<"/", "opportunities">>,
     <<"/", "hiring">>, <<"/", "career">>, <<"/", "vacancies">> >>

UnknownAts == "Unknown / Custom ATS"

\* As if the last matching rule of the table won.
DetectUrlFromEnd(url, k) ==
  LET hits == {j \in k..Len(ATS_PATTERNS) :
                 \E p \in 1..Len(ATS_PATTERNS[j].patterns) :
                   Includes(LowerStr(url), ATS_PATTERNS[j].patterns[p])}
  IN IF hits = {} THEN None
     ELSE ATS_PATTERNS[CHOOSE j \in hits : \A h \in hits : h <= j].name

\* The name of the first rule from rule k on with a pattern matching url.
RECURSIVE DetectUrlFrom(_, _)
DetectUrlFrom(url, k) ==
  IF k > Len(ATS_PATTERNS) THEN None
  ELSE IF \E p \in 1..Len(ATS_PATTERNS[k].patterns) :
            Includes(LowerStr(url), ATS_PATTERNS[k].patterns[p])
    THEN ATS_PATTERNS[k].name
    ELSE DetectUrlFrom(url, k + 1)

detectAtsFromUrl(url) == DetectUrlFrom(url, 1)

HtmlChecks ==
  << <<(<<"greenhouse">>), "Greenhouse">>,
     <<(<<"lever", ".", "co">>), "Lever">>,
     <<(<<"workday">>), "Workday">>,
     <<(<<"ashbyhq">>), "Ashby">>,
     <<(<<"smartrecruiters">>), "SmartRecruiters">>,
     <<(<<"bamboohr">>), "BambooHR">>,
     <<(<<"teamtailor">>), "Teamtailor">>,
     <<(<<"icims">>), "iCIMS">>,
     <<(<<"recruitee">>), "Recruitee">>,
     <<(<<"pinpointhq">>), "Pinpoint">>,
     <<(<<"workable">>), "Workable">>,
     <<(<<"jazz">>), "JazzHR">>,
     <<(<<"breezy", ".", "hr">>), "Breezy HR">> >>

\* ------------------------------------------------------------------------
\* HTML.  A document is the sequence of its nodes in document order; a
\* node is [tag, attrs, text, parent]: attrs the sequence of its
\* <<name, value>> attributes, text the text it holds itself, parent the
\* position of its parent element (0: none).  The empty string is <<>>.

\* $(el).attr(name): the value, or NoString when the attribute is absent.
RECURSIVE AttrFrom(_, _, _)
AttrFrom(attrs, name, k) ==
  IF k > Len(attrs) THEN NoString
  ELSE IF attrs[k][1] = name THEN attrs[k][2]
  ELSE AttrFrom(attrs, name, k + 1)

Attr(n, name) == AttrFrom(n.attrs, name, 1)

HasAttr(n, name) == \E k \in 1..Len(n.attrs) : n.attrs[k][1] = name

IsElement(n) == n.tag # "#text"

\* a || b || "" over attribute values: undefined and "" are falsy.
OrEmpty(a, b) ==
  IF a # NoString /\ a # <<>> THEN a
  ELSE IF b # NoString /\ b # <<>> THEN b
  ELSE <<>>

\* The text of the markup of one node, and of a document.
RECURSIVE AttrsText(_)
AttrsText(attrs) ==
  IF attrs = <<>> THEN <<>>
  ELSE <<" ", Head(attrs)[1], "=">> \o Head(attrs)[2] \o AttrsText(Tail(attrs))

NodeText(n) ==
  IF IsElement(n) THEN <<"<", n.tag>> \o AttrsText(n.attrs) \o <<">">> \o n.text
  ELSE n.text

RECURSIVE Markup(_)
Markup(html) == IF html = <<>> THEN <<>> ELSE NodeText(Head(html)) \o Markup(Tail(html))

\* The name of the first check from check k on whose keyword lowerHtml holds.
RECURSIVE DetectHtmlFrom(_, _)
DetectHtmlFrom(lowerHtml, k) ==
  IF k > Len(HtmlChecks) THEN None
  ELSE IF Includes(lowerHtml, HtmlChecks[k][1]) THEN HtmlChecks[k][2]
  ELSE DetectHtmlFrom(lowerHtml, k + 1)

detectAtsFromHtml(html) == DetectHtmlFrom(LowerStr(Markup(html)), 1)

\* Whether node a is an ancestor of node k.
RECURSIVE IsAncestor(_, _, _)
IsAncestor(html, a, k) ==
  /\ html[k].parent # 0
  /\ (html[k].parent = a \/ IsAncestor(html, a, html[k].parent))

\* $(el).text(): the text of the node and of its descendants.
RECURSIVE TextFrom(_, _, _)
TextFrom(html, el, k) ==
  IF k > Len(html) THEN <<>>
  ELSE (IF k = el \/ IsAncestor(html, el, k) THEN html[k].text ELSE <<>>)
         \o TextFrom(html, el, k + 1)

TextOf(html, el) == TextFrom(html, el, 1)

\* The class names of a node: its class attribute split at white space.
RECURSIVE SplitSpaces(_)
SplitSpaces(s) ==
  IF s = <<>> THEN <<>>
  ELSE LET n == RunLen(s, 1, {" "})
       IN IF n = 0 THEN SplitSpaces(Tail(s))
          ELSE <<SubSeq(s, 1, n)>> \o SplitSpaces(SubSeq(s, n + 1, Len(s)))

Classes(n) ==
  IF HasAttr(n, "class")
    THEN {SplitSpaces(Attr(n, "class"))[k] : k \in 1..Len(SplitSpaces(Attr(n, "class")))}
    ELSE {}

\* Selectors.  A simple selector is [tag, kind, key, val]: tag "*" is any
\* element; kind "class" is .val, "has" is [key*=val], "eq" is [key=val],
\* "attr" is [key], "any" is the tag alone.  A selector is [anc, self]: self
\* with an ancestor matching anc (NoAncestor: none asked for).  A selector
\* list is a set of selectors.
Sel(tag, kind, key, val) == [tag |-> tag, kind |-> kind, key |-> key, val |-> val]
NoAncestor == Sel("", "none", "", <<>>)
On(tag, kind, key, val) == [anc |-> NoAncestor, self |-> Sel(tag, kind, key, val)]
Within(ancClass, tag) ==
  [anc |-> Sel("*", "class", "class", ancClass), self |-> Sel(tag, "any", "", <<>>)]

MatchSimple(n, s) ==
  /\ IsElement(n)
  /\ s.tag = "*" \/ n.tag = s.tag
  /\ CASE s.kind = "class" -> s.val \in Classes(n)
       [] s.kind = "has" -> HasAttr(n, s.key) /\ Includes(Attr(n, s.key), s.val)
       [] s.kind = "eq" -> HasAttr(n, s.key) /\ Attr(n, s.key) = s.val
       [] s.kind = "attr" -> HasAttr(n, s.key)
       [] OTHER -> TRUE

Matches(html, k, sel) ==
  /\ MatchSimple(html[k], sel.self)
  /\ sel.anc # NoAncestor =>
       \E a \in 1..Len(html) : IsAncestor(html, a, k) /\ MatchSimple(html[a], sel.anc)

\* $(selectors): the positions of the elements matching one of them.
Select(html, sels) == {k \in 1..Len(html) : \E s \in sels : Matches(html, k, s)}

\* $(selectors).length
Count(html, sels) == Cardinality(Select(html, sels))

\* ------------------------------------------------------------------------
\* Patterns on URLs and links

\* /\/(w1|w2|...)(\/|$|\?)/i and the like: a "/", a word of `words`, then a
\* token of `after` or, with atEnd, the end of the string.
SegTest(s, words, after, atEnd) ==
  \E k \in 1..(Len(s) - 1) :
    /\ s[k] = "/"
    /\ Lower(s[k + 1]) \in words
    /\ \/ atEnd /\ k + 1 = Len(s)
       \/ k + 2 <= Len(s) /\ s[k + 2] \in after

\* /\/(careers|jobs|open-positions|openings|vacancies)(\/|$|\?)/i.test(href)
IsCareersHref(href) ==
  SegTest(href, {"careers", "jobs", "open-positions", "openings", "vacancies"},
          {"/", "?"}, TRUE)

\* /\/(jobs?|positions?|openings?|roles?)\//i.test(href) || /\/apply/i.test(href)
IsJobHref(href) ==
  \/ SegTest(href, {"job", "jobs", "position", "positions", "opening", "openings",
                    "role", "roles"}, {"/"}, FALSE)
  \/ \E k \in 1..(Len(href) - 1) :
       href[k] = "/" /\ Lower(href[k + 1]) \in {"apply", "applytojob"}

\* s.match(/prefix([^/?#]+)/i): the captured group of the leftmost match,
\* or NoString when there is none.
Capture(s, prefix) ==
  LET low == LowerStr(s)
      hit(k) == OccursAt(low, prefix, k) /\ RunLen(s, k + Len(prefix) + 1, Delims) >= 1
  IN IF \E k \in 0..Len(s) : hit(k)
       THEN LET k == CHOOSE k \in 0..Len(s) : hit(k) /\ \A m \in 0..(k - 1) : ~hit(m)
            IN SubSeq(s, k + Len(prefix) + 1,
                      k + Len(prefix) + RunLen(s, k + Len(prefix) + 1, Delims))
       ELSE NoString

IsAnchor(n) == IsElement(n) /\ n.tag = "a" /\ HasAttr(n, "href")
IsFrame(n) == IsElement(n) /\ n.tag = "iframe" /\ HasAttr(n, "src")

\* Array.prototype.slice(0, n)
Slice(seq, n) == SubSeq(seq, 1, IF Len(seq) < n THEN Len(seq) ELSE n)

\* ------------------------------------------------------------------------
\* The link lists mined from a page

\* atsLinks of findCareersPage: src || href || "" of every iframe[src] and
\* a[href], in document order, when it matches an ATS pattern.
RECURSIVE AtsLinksFrom(_, _)
AtsLinksFrom(html, k) ==
  IF k > Len(html) THEN <<>>
  ELSE LET src == OrEmpty(Attr(html[k], "src"), Attr(html[k], "href"))
       IN (IF (IsFrame(html[k]) \/ IsAnchor(html[k])) /\ detectAtsFromUrl(src) # None
             THEN <<src>> ELSE <<>>)
            \o AtsLinksFrom(html, k + 1)

atsLinks(html) == AtsLinksFrom(html, 1)

\* externalAtsLinks of POST: href || src || "" of every a[href] and
\* iframe[src], in document order, when it matches an ATS pattern.
RECURSIVE ExternalFrom(_, _)
ExternalFrom(html, k) ==
  IF k > Len(html) THEN <<>>
  ELSE LET href == OrEmpty(Attr(html[k], "href"), Attr(html[k], "src"))
       IN (IF (IsFrame(html[k]) \/ IsAnchor(html[k])) /\ detectAtsFromUrl(href) # None
             THEN <<href>> ELSE <<>>)
            \o ExternalFrom(html, k + 1)

externalAtsLinks(html) == ExternalFrom(html, 1)

\* The second priority: the href of every anchor with a careers-like path.
RECURSIVE HrefLinksFrom(_, _)
HrefLinksFrom(html, k) ==
  IF k > Len(html) THEN <<>>
  ELSE LET href == OrEmpty(Attr(html[k], "href"), <<>>)
       IN (IF IsAnchor(html[k]) /\ IsCareersHref(href) THEN <<href>> ELSE <<>>)
            \o HrefLinksFrom(html, k + 1)

\* As if a link by its text were pushed although the list holds it already.
TextLinksKeepAll(html, k, list) ==
  list \o SelectSeq([j \in 1..(Len(html) - k + 1) |->
                       IF /\ IsAnchor(html[j + k - 1])
                          /\ LowerStr(Trim(TextOf(html, j + k - 1)))
                               \in { <<"careers">>, <<"jobs">>,
                                     <<"work", " ", "with", " ", "us">>,
                                     <<"join", " ", "us">> }
                          /\ Length(OrEmpty(Attr(html[j + k - 1], "href"), <<>>)) > 1
                         THEN OrEmpty(Attr(html[j + k - 1], "href"), <<>>)
                         ELSE <<>>],
                    LAMBDA h : h # <<>>)

\* The third priority: pushes onto `list` the href of every anchor from k on
\* whose text is a careers text, unless the list holds it already.
RECURSIVE TextLinksFrom(_, _, _)
TextLinksFrom(html, k, list) ==
  IF k > Len(html) THEN list
  ELSE LET href == OrEmpty(Attr(html[k], "href"), <<>>)
           text == LowerStr(Trim(TextOf(html, k)))
       IN TextLinksFrom(html, k + 1,
            IF /\ IsAnchor(html[k])
               /\ text \in { <<"careers">>, <<"jobs">>,
                            <<"work", " ", "with", " ", "us">>, <<"join", " ", "us">> }
               /\ Length(href) > 1
               /\ \A j \in 1..Len(list) : list[j] # href
              THEN Append(list, href) ELSE list)

careersLinks(html) == TextLinksFrom(html, 1, HrefLinksFrom(html, 1))

\* ------------------------------------------------------------------------
\* countJobsFromHtml

\* The selectors tried for a vendor, in the order of the code.
VendorSelectors(atsName) ==
  CASE atsName = "Greenhouse" ->
         \* .opening, then [class*="job-post"], [class*="opening"]
         << {On("*", "class", "class", <<"opening">>)},
            {On("*", "has", "class", <<"job", "-post">>),
             On("*", "has", "class", <<"opening">>)} >>
    [] atsName = "Lever" ->
         \* .posting
         << {On("*", "class", "class", <<"posting">>)} >>
    [] atsName = "Ashby" ->
         \* [class*="ashby-job"], [data-testid*="job"]
         << {On("*", "has", "class", <<"ashby-", "job">>),
             On("*", "has", "data-testid", <<"job">>)} >>
    [] atsName = "SmartRecruiters" ->
         \* .opening-job, .js-openings li, [class*='job-item']
         << {On("*", "class", "class", <<"opening", "-job">>),
             Within(<<"js-", "opening", "s">>, "li"),
             On("*", "has", "class", <<"job", "-item">>)} >>
    [] atsName = "Workable" ->
         \* [data-ui='job'], li[data-role]
         << {On("*", "eq", "data-ui", <<"job">>), On("li", "attr", "data-role", <<>>)} >>
    [] OTHER -> <<>>

genericSelectors ==
  << {On("*", "has", "class", <<"job", "-listing">>)},
     {On("*", "has", "class", <<"job", "-item">>)},
     {On("*", "has", "class", <<"job", "-card">>)},
     {On("*", "has", "class", <<"job", "-post">>)},
     {On("*", "has", "class", <<"position-item">>)},
     {On("*", "has", "class", <<"opening">>)},
     {On("*", "has", "class", <<"vacancy">>)},
     {On("*", "has", "class", <<"career-item">>)},
     {On("*", "attr", "data-job-id", <<>>)},
     {On("tr", "has", "class", <<"job">>)},
     {On("li", "has", "class", <<"job">>)},
     {On("*", "class", "class", <<"posting">>)},
     {On("*", "class", "class", <<"job">>)} >>

\* The count of the first selector of the list from k on that matches an
\* element, or Null.
RECURSIVE FirstCount(_, _, _)
RECURSIVE CountOrNext(_, _, _, _)
CountOrNext(count, html, selectors, k) ==
  IF count > 0 THEN count ELSE FirstCount(html, selectors, k + 1)
FirstCount(html, selectors, k) ==
  IF k > Len(selectors) THEN Null
  ELSE CountOrNext(Count(html, selectors[k]), html, selectors, k)

\* The last resort: the lower-cased texts of the anchors that look like
\* links to job pages.
IsJobLink(n, text) ==
  /\ IsAnchor(n)
  /\ Length(text) > 5
  /\ Length(text) < 200
  /\ IsJobHref(OrEmpty(Attr(n, "href"), <<>>))

LinkText(html, k) == Trim(TextOf(html, k))

jobLinks(html) ==
  { LowerStr(LinkText(html, k)) :
      k \in { j \in 1..Len(html) : IsJobLink(html[j], LinkText(html, j)) } }

\* As if the generic selectors were tried before the vendor's.
GenericAnswerFirst(a, b, c) == IF b # Null THEN b ELSE IF a # Null THEN a ELSE c

\* The first answer of a list of answers, or Null.
FirstAnswer(a, b, c) == IF a # Null THEN a ELSE IF b # Null THEN b ELSE c

\* A variant that reports an empty set of job links as a count.
SizeOrZero(size) == size

\* size > 0 ? size : null
SizeOrNull(size) == IF size > 0 THEN size ELSE Null

countJobsFromHtml(html, atsName) ==
  IF html = <<>> THEN Null
  ELSE FirstAnswer(FirstCount(html, VendorSelectors(atsName), 1),
                   FirstCount(html, genericSelectors, 1),
                   SizeOrNull(Cardinality(jobLinks(html))))

\* ------------------------------------------------------------------------
\* The request's own helpers

\* hostname.replace(/^www\./, "").split(".")[0], first letter upper-cased;
\* "Unknown" when the URL does not parse.
extractCompanyName(url) ==
  IF ParseUrl(url) = NoObject THEN <<"Unknown">>
  ELSE LET host == StripWww(ParseUrl(url).hostname)
           label == SubSeq(host, 1, RunLen(host, 1, {"."}))
       IN IF label = <<>> THEN <<>>
          ELSE <<Capitalize(label[1])>> \o Tail(label)

\* The URL normalisation of POST: trim, then "https://" in front of a URL
\* that starts with neither "http://" nor "https://".
NormalizeUrl(url) ==
  LET t == Trim(url)
  IN IF StartsWith(t, <<"http:", "/", "/">>) \/ StartsWith(t, <<"https:", "/", "/">>)
       THEN t
       ELSE <<"https:", "/", "/">> \o t

\* As if the base URL were the whole URL.
BaseUrlIsHref(parsedUrl) == Href(parsedUrl)

\* `${parsedUrl.protocol}//${parsedUrl.hostname}`
BaseUrlOf(parsedUrl) == <<parsedUrl.protocol, "/", "/">> \o parsedUrl.hostname

\* new URL(url).hostname.replace(/^www\./, "")
DomainOf(url) == StripWww(ParseUrl(url).hostname)

\* The vendor API endpoints.
GreenhouseApi(slug) ==
  <<"https:", "/", "/", "boards-api", ".", "greenhouse", ".", "io", "/", "v1", "/",
    "boards", "/">> \o slug \o <<"/", "jobs">>
AshbyApi(slug) ==
  <<"https:", "/", "/", "api", ".", "ashbyhq", ".", "com", "/", "posting-api", "/",
    "job-board", "/">> \o slug
LeverApi(slug) ==
  <<"https:", "/", "/", "api", ".", "lever", ".", "co", "/", "v0", "/", "postings",
    "/">> \o slug \o <<"?", "mode=json">>

\* The board slugs matched in the careers URL.
GreenhouseSlug(careersUrl) ==
  Capture(careersUrl, <<"boards", ".", "greenhouse", ".", "io", "/">>)
AshbySlug(careersUrl) ==
  Capture(careersUrl, <<"jobs", ".", "ashbyhq", ".", "com", "/">>)
LeverSlug(careersUrl) ==
  Capture(careersUrl, <<"jobs", ".", "lever", ".", "co", "/">>)

\* JSON values: [kind |-> "null"], [kind |-> "string"],
\* [kind |-> "array", len |-> n], [kind |-> "object", jobs |-> v] with v a JSON
\* value or NoObject when the object has no jobs member.
JsonArray(n) == [kind |-> "array", len |-> n]

\* data.jobs && Array.isArray(data.jobs) ? data.jobs.length : no answer.
\* Reading a member of null throws, which the caller's catch makes no answer.
JobsLength(data) ==
  IF data.kind = "object" /\ data.jobs # NoObject /\ data.jobs.kind = "array"
    THEN data.jobs.len
    ELSE Null

\* Array.isArray(data) ? data.length : no answer.
ArrayLength(data) == IF data.kind = "array" THEN data.len ELSE Null


\* ------------------------------------------------------------------------
\* The world outside: request bodies, pages and server answers

\* The longest job array a vendor API answers with.
MaxJobs == 1
\* The candidate paths the site may serve a page at: paths 1..MaxServed.  The
\* others fail, stay silent, answer non-2xx or redirect off the site.
MaxServed == 2

El(tag, attrs, text, parent) ==
  [tag |-> tag, attrs |-> attrs, text |-> text, parent |-> parent]
Txt(text) == El("#text", <<>>, text, 0)

OtherSite == <<"https:", "/", "/", "other", ".", "com", "/">>
GhBoard == <<"https:", "/", "/", "boards", ".", "greenhouse", ".", "io", "/", "acme">>
AshbyBoard == <<"https:", "/", "/", "jobs", ".", "ashbyhq", ".", "com", "/", "Acme">>

\* A page without a listing.
PlainPage == << Txt(<<"we", " ", "are", " ", "hiring">>) >>

\* Careers pages: the empty page, the plain page, a listing, a page that
\* embeds an Ashby board, a page that names Lever in a script and links to a
\* Workable board by a scheme-less URL, and the page of a Greenhouse board.
CareersPages ==
  { <<>>,
    PlainPage,
    << El("ul", <<>>, <<>>, 0),
       El("li", << <<"class", <<"job", "-item">>>> >>, <<"engineer">>, 1),
       El("li", << <<"class", <<"job", "-item", " ", "new">>>> >>, <<"designer">>, 1) >>,
    << El("p", <<>>, <<"join", " ", "us">>, 0),
       El("iframe", << <<"src", AshbyBoard>> >>, <<>>, 0),
       El("a", << <<"href", <<"/", "jobs", "/", "1">>>> >>,
          <<"backend", " ", "engineer">>, 0) >>,
    << El("script",
          << <<"src", <<"https:", "/", "/", "cdn", ".", "lever", ".", "co", "/",
                        "embed.js">>>> >>,
          <<>>, 0),
       El("a", << <<"href", <<"/", "/", "apply", ".", "workable", ".", "com", "/",
                             "acme">>>> >>,
          <<"apply">>, 0) >>,
    << El("div", << <<"class", <<"opening">>>> >>, <<>>, 0),
       El("a", << <<"href", <<"/", "acme", "/", "jobs", "/", "7">>>> >>, <<"engineer">>, 1),
       El("div", << <<"class", <<"opening">>>> >>, <<>>, 0),
       El("div", << <<"class", <<"opening">>>> >>, <<>>, 0) >> }

\* Homepages: one without links, one with links to ATS boards (the first of
\* them unparseable), one with careers links by href and by text, one with a
\* careers link ahead of a link to an ATS board and of a careers text on a
\* link to "#".
HomePages ==
  { << Txt(<<"Acme", " ", "makes", " ", "anvils">>) >>,
    << El("a", << <<"href", <<"/", "jobs">>>> >>, <<"Jobs">>, 0),
       El("a", << <<"href", AshbyBoard>> >>, <<"apply">>, 0),
       El("a", << <<"href", <<"#">>>> >>, <<"Careers">>, 0) >>,
    << El("a", << <<"href", <<"https:", "/", "/", "bad", " ", "host", "/",
                             "greenhouse", ".", "io">>>> >>,
          <<"jobs">>, 0),
       El("iframe", << <<"src", GhBoard>> >>, <<>>, 0),
       El("a", << <<"href", <<"https:", "/", "/", "jobs", ".", "lever", ".", "co", "/",
                             "acme-inc">>>> >>,
          <<"Careers">>, 0),
       El("a", << <<"href", AshbyBoard>> >>, <<"more">>, 0) >>,
    << El("a", << <<"href", <<"/", "careers">>>> >>, <<" ", "Careers", " ">>, 0),
       El("a", << <<"href", <<"https:", "/", "/", "bad", " ", "host", "/", "jobs">>>> >>,
          <<"old">>, 0),
       El("a", << <<"href", <<"/", "careers">>>> >>, <<"Jobs">>, 0),
       El("a", << <<"href", <<"https:", "/", "/", "other", ".", "com", "/", "jobs", "?",
                             "x">>>> >>,
          <<"partners">>, 0),
       El("a", << <<"href", <<"/", "about">>>> >>, <<"Join", " ", "us">>, 0),
       El("a", << <<"href", <<"/", "team">>>> >>, <<"Jobs">>, 0),
       El("a", << <<"href", <<"/", "x">>>> >>, <<"careers">>, 0) >> }

\* The bodies of a response: a document, a JSON value, a body whose
\* reading fails, a body that never ends.
HtmlBody(html) == [kind |-> "html", html |-> html]
JsonBody(data) == [kind |-> "json", data |-> data]
BrokenBody == [kind |-> "broken"]
StalledBody == [kind |-> "stalled"]

JsonValues ==
  {[kind |-> "null"],
   [kind |-> "object", jobs |-> NoObject],
   [kind |-> "object", jobs |-> [kind |-> "string"]]}
    \cup {JsonArray(n) : n \in 0..MaxJobs}
    \cup {[kind |-> "object", jobs |-> JsonArray(n)] : n \in 0..MaxJobs}

\* The other spelling of a URL's host: with "www." or without.
WwwFlip(url) ==
  LET u == ParseUrl(url)
  IN Href([u EXCEPT !.hostname =
             IF StartsWith(u.hostname, <<"www", ".">>)
               THEN StripWww(u.hostname)
               ELSE <<"www", ".">> \o u.hostname])

\* What the network may do with a GET of url: fail, stay silent, or answer
\* with a response [ok, url, body], url the final URL after redirects.
Answer(ok, url, body) == [kind |-> "response", ok |-> ok, url |-> url, body |-> body]

\* The ways a GET fails: the fetch throws, the server stays silent, the
\* status is not 2xx.
Failures(url) ==
  {[kind |-> "error"], [kind |-> "silent"], Answer(FALSE, url, BrokenBody)}

PageOutcomes(url, pages) ==
  Failures(url)
    \cup {Answer(TRUE, f, b) :
            f \in {url, WwwFlip(url), OtherSite, GhBoard},
            b \in {HtmlBody(p) : p \in pages} \cup {BrokenBody, StalledBody}}

ProbeOutcomes(k, url) ==
  IF k <= MaxServed THEN PageOutcomes(url, CareersPages)
  ELSE Failures(url) \cup {Answer(TRUE, OtherSite, HtmlBody(PlainPage))}

ApiOutcomes(url) ==
  Failures(url)
    \cup {Answer(TRUE, url, b) :
            b \in {JsonBody(v) : v \in JsonValues}
                    \cup {HtmlBody(PlainPage), BrokenBody, StalledBody}}

\* The bodies of the POST: what request.json() resolves to, or that it
\* throws.  A JSON object is [kind |-> "object", url |-> v], v the url member.
BodyWithUrl(s) == [kind |-> "object", url |-> [type |-> "string", s |-> s]]

RequestBodies ==
  {[kind |-> "invalid"], [kind |-> "null"], [kind |-> "number"],
   [kind |-> "object", url |-> [type |-> "undefined"]],
   [kind |-> "object", url |-> [type |-> "number"]],
   BodyWithUrl(<<>>),
   BodyWithUrl(<<" ">>),
   BodyWithUrl(<<"bad", " ", "url">>),
   BodyWithUrl(<<"acme", ".", "com">>),
   BodyWithUrl(<<"https:", "/", "/", "acme", ".", "com", "?", "ref">>),
   BodyWithUrl(<<" ", "http:", "/", "/", "www", ".", "Acme", ".", "com", "/", "about",
                 " ">>)}

\* ------------------------------------------------------------------------
\* The state of one request

VARIABLES
  request,      \* the body of the POST
  pc,           \* where the handler waits: "request", a call site's name while
                \* its fetch is in flight, that name with "Body" while the body
                \* of its response is read, "done" once the handler has answered
  i,            \* the position of the call site in its loop
  url,          \* the URL of the fetch in flight
  timer,        \* fetchWithTimeout's abort timer is armed
  res,          \* the response whose body is being read
  baseUrl, companyName,
  home,         \* the homepage's document
  list,         \* the links the current loop of findCareersPage walks
  careersPage, atsFromUrl, atsDetected, liveRoles, careersUrl,
  apiCount,     \* what countJobsViaApi returned
  response,     \* what POST returned
  \* History, kept for the properties only:
  calls,        \* the fetches issued, in order: <<call site, position, URL>>
  failedUrls,   \* the watched URLs whose fetch threw or was not 2xx
  refetched,    \* a fetch was issued for a URL of failedUrls
  passed,       \* the position of the first candidate path whose response the
                \* acceptance rule admits, 0 while there is none
  skipped,      \* a candidate that the acceptance rule admits was passed over
  found,        \* the call site and the response the careers page came from
  tiers,        \* the counting tiers that ran, in order: <<tier, page, answer>>
  \* Requests in flight side by side, for the specification Concurrent only:
  tasks,        \* task -> [request, heard, st]: its body, the answers it got so
                \* far, and its state, a record like Cur
  \* A detection function applied on its own, for the specification Detection
  \* only:
  applied       \* [of, to, gives]: the function, its argument and its value

vars ==
  <<request, pc, i, url, timer, res, baseUrl, companyName, home, list, careersPage,
    atsFromUrl, atsDetected, liveRoles, careersUrl, apiCount, response, calls,
    failedUrls, refetched, passed, skipped, found, tiers, tasks,
    applied>>

\* The state as one record, and the step to a state given as a record.
Cur ==
  [pc |-> pc, i |-> i, url |-> url, timer |-> timer, res |-> res,
   baseUrl |-> baseUrl, companyName |-> companyName, home |-> home, list |-> list,
   careersPage |-> careersPage, atsFromUrl |-> atsFromUrl,
   atsDetected |-> atsDetected, liveRoles |-> liveRoles, careersUrl |-> careersUrl,
   apiCount |-> apiCount, response |-> response, calls |-> calls,
   failedUrls |-> failedUrls, refetched |-> refetched, passed |-> passed,
   skipped |-> skipped, found |-> found, tiers |-> tiers]

Becomes(r) ==
  /\ pc' = r.pc /\ i' = r.i /\ url' = r.url /\ timer' = r.timer /\ res' = r.res
  /\ baseUrl' = r.baseUrl /\ companyName' = r.companyName /\ home' = r.home
  /\ list' = r.list /\ careersPage' = r.careersPage /\ atsFromUrl' = r.atsFromUrl
  /\ atsDetected' = r.atsDetected /\ liveRoles' = r.liveRoles
  /\ careersUrl' = r.careersUrl /\ apiCount' = r.apiCount
  /\ response' = r.response /\ calls' = r.calls
  /\ failedUrls' = r.failedUrls /\ refetched' = r.refetched /\ passed' = r.passed
  /\ skipped' = r.skipped /\ found' = r.found /\ tiers' = r.tiers
  /\ UNCHANGED <<request, tasks, applied>>

NoResponse == [kind |-> "none"]

\* A variant whose role count starts at zero.
InitialLocalsZero ==
  [atsDetected |-> UnknownAts, liveRoles |-> Null + 1, careersUrl |-> NoString]

\* let atsDetected = "Unknown / Custom ATS", liveRoles = null, careersUrl = null
InitialLocals ==
  [atsDetected |-> UnknownAts, liveRoles |-> Null, careersUrl |-> NoString]
NoFound == [by |-> "none"]

\* The state of a request that has just come in.
Fresh ==
  [pc |-> "request", i |-> 0, url |-> NoString, timer |-> FALSE, res |-> NoObject,
   baseUrl |-> NoString, companyName |-> NoString, home |-> <<>>, list |-> <<>>,
   careersPage |-> NoObject, atsFromUrl |-> None,
   atsDetected |-> InitialLocals.atsDetected, liveRoles |-> InitialLocals.liveRoles,
   careersUrl |-> InitialLocals.careersUrl, apiCount |-> Null,
   response |-> NoResponse, calls |-> <<>>, failedUrls |-> {}, refetched |-> FALSE,
   passed |-> 0, skipped |-> FALSE, found |-> NoFound, tiers |-> <<>>]

Starts(r) ==
  /\ pc = r.pc /\ i = r.i /\ url = r.url /\ timer = r.timer /\ res = r.res
  /\ baseUrl = r.baseUrl /\ companyName = r.companyName /\ home = r.home
  /\ list = r.list /\ careersPage = r.careersPage /\ atsFromUrl = r.atsFromUrl
  /\ atsDetected = r.atsDetected /\ liveRoles = r.liveRoles
  /\ careersUrl = r.careersUrl /\ apiCount = r.apiCount
  /\ response = r.response /\ calls = r.calls
  /\ failedUrls = r.failedUrls /\ refetched = r.refetched /\ passed = r.passed
  /\ skipped = r.skipped /\ found = r.found /\ tiers = r.tiers

Init ==
  /\ request \in RequestBodies
  /\ Starts(Fresh)
  /\ tasks = <<>>
  /\ applied = NoObject

\* ------------------------------------------------------------------------
\* The handler, from its last statement back to its first.  Each operator
\* takes the state as a record and gives the state at the next point where
\* the handler waits (or has answered).

ErrorPayload(status) == [kind |-> "error", status |-> status]

\* The ResearchResult of POST.
Result(r) ==
  [kind |-> "result", status |-> 200, companyName |-> r.companyName,
   website |-> r.baseUrl, atsDetected |-> r.atsDetected, liveRoles |-> r.liveRoles,
   careersUrl |-> r.careersUrl]

\* return NextResponse.json(payload, { status })
Respond(r, payload) == [r EXCEPT !.pc = "done", !.response = payload, !.timer = FALSE]

\* return NextResponse.json(result)
Answered(r) == Respond(r, Result(r))

\* fetchWithTimeout(url) up to its await: the timer is armed and the request
\* is sent.
Fetch(r, site, k, u) ==
  [r EXCEPT !.pc = site, !.i = k, !.url = u, !.timer = TRUE, !.res = NoObject,
            !.calls = Append(@, <<site, k, u>>),
            !.refetched = @ \/ u \in r.failedUrls]

\* countJobsViaApi returns count to POST (called: whether it was called).
Counted(r, count, called) ==
  [r EXCEPT !.pc = "counted", !.apiCount = count, !.timer = FALSE,
            !.tiers = IF called THEN Append(@, <<"api", "api", count>>) ELSE @]

\* careersUrl || careersPage.url
ApiCareersUrl(r) ==
  IF r.careersUrl # NoString /\ r.careersUrl # <<>> THEN r.careersUrl
  ELSE r.careersPage.url

\* companySlug.toLowerCase()
CompanySlug(r) == LowerStr(r.companyName)

\* As if the company's name were the slug whatever the careers URL holds.
SlugIsCompany(slug, r) == CompanySlug(r)

\* match ? match[1] : companySlug.toLowerCase()
SlugOr(slug, r) == IF slug # NoString THEN slug ELSE CompanySlug(r)

\* The attempts of countJobsViaApi for a vendor, the careers URL u and the
\* company: the URLs it may fetch, in order.
ApiAttempts(r, u) ==
  CASE r.atsDetected = "Greenhouse" ->
         (IF GreenhouseSlug(u) # NoString
            THEN <<GreenhouseApi(GreenhouseSlug(u))>> ELSE <<>>)
           \o <<GreenhouseApi(CompanySlug(r))>>
    [] r.atsDetected = "Ashby" -> <<AshbyApi(SlugOr(AshbySlug(u), r))>>
    [] r.atsDetected = "Lever" -> <<LeverApi(SlugOr(LeverSlug(u), r))>>
    [] OTHER -> <<>>

\* countJobsViaApi from its attempt k on: its next fetch, or its return
\* without an answer.
ApiFrom(r, attempts, k) ==
  IF k <= Len(attempts) THEN Fetch(r, "api", k, attempts[k]) ELSE Counted(r, Null, TRUE)

Api(r, k) == ApiFrom(r, ApiAttempts(r, ApiCareersUrl(r)), k)

\* if (atsDetected !== "Unknown / Custom ATS") apiCount = await countJobsViaApi(...)
ApiStage(r) ==
  IF r.atsDetected # UnknownAts THEN Api(r, 1) ELSE Counted(r, Null, FALSE)

\* The answer read from a vendor's JSON.
ApiAnswer(atsName, data) ==
  IF atsName = "Lever" THEN ArrayLength(data) ELSE JobsLength(data)

\* findCareersPage returns page (NoObject: null) to POST.
Located(r, page, by) ==
  [r EXCEPT !.pc = "located", !.careersPage = page, !.found = by, !.timer = FALSE]

NotFound(r) == Located(r, NoObject, NoFound)

\* The Tier B/C loop of findCareersPage from link k on.
RECURSIVE TierBC(_, _)
TierBC(r, k) ==
  IF k > Len(r.list) THEN NotFound(r)
  ELSE IF Resolve(r.list[k], r.baseUrl) = NoString THEN TierBC(r, k + 1)
  ELSE Fetch(r, "tierBC", k, Resolve(r.list[k], r.baseUrl))

\* The Tier A loop of findCareersPage from link k on, then Tier B/C.
RECURSIVE TierA(_, _)
TierA(r, k) ==
  IF k > Len(r.list)
    THEN TierBC([r EXCEPT !.list = Slice(careersLinks(r.home), 5)], 1)
  ELSE IF Resolve(r.list[k], r.baseUrl) = NoString THEN TierA(r, k + 1)
  ELSE Fetch(r, "tierA", k, Resolve(r.list[k], r.baseUrl))

\* As if the careers links were tried without the ATS links before them.
MineCareersLinksOnly(r, html) ==
  TierBC([r EXCEPT !.home = html, !.list = Slice(careersLinks(html), 5)], 1)

\* The homepage is parsed.
Mine(r, html) == TierA([r EXCEPT !.home = html, !.list = Slice(atsLinks(html), 3)], 1)

\* The candidate-path loop from path k on, then the homepage.
Probe(r, k) ==
  IF k > Len(CAREERS_PATHS) THEN Fetch(r, "home", 1, r.baseUrl)
  ELSE Fetch(r, "probe", k, Resolve(CAREERS_PATHS[k], r.baseUrl))

\* A variant without the test of the final host.
AcceptsAnyHost(finalUrl, base) ==
  ParseUrl(finalUrl) # NoObject /\ ParseUrl(base) # NoObject

\* finalDomain === baseDomain || detectAtsFromUrl(res.url)
Accepts(finalUrl, base) ==
  DomainOf(finalUrl) = DomainOf(base) \/ detectAtsFromUrl(finalUrl) # None

\* timeoutMs = 8000: the default no call site overrides, in milliseconds.
timeoutMs == 8000

\* fetchWithTimeout given what the network does: its response, or that it
\* throws.  The timer ends a silent request; the call returns as soon as
\* the response's head is there, and disarms the timer as it returns.
fetchWithTimeout(outcome) ==
  IF outcome.kind = "response"
    THEN [threw |-> FALSE,
          res |-> [ok |-> outcome.ok, url |-> outcome.url, body |-> outcome.body]]
    ELSE [threw |-> TRUE, res |-> NoObject]

\* Whether the await of a fetch ends: a silent server is ended by the timer.
Ends(outcome, armed) == outcome.kind = "silent" => armed

\* Whether the await of res.text() or res.json() ends: a body that never
\* ends is ended by the timer only.
BodyEnds(body, armed) == body.kind = "stalled" => armed

\* The URLs that two call sites can name with the pages of this model: the
\* first candidate path, which a homepage may link to, and the Greenhouse
\* API of the company's own name.
Watched(r) ==
  {Resolve(CAREERS_PATHS[1], r.baseUrl), GreenhouseApi(CompanySlug(r))}

\* The state when the awaited fetch has returned a 2xx response, and when
\* it has thrown or returned another status.
Returned(r, head) == [r EXCEPT !.timer = FALSE, !.res = head]
Failed(r) ==
  [r EXCEPT !.timer = FALSE, !.failedUrls = @ \cup ({r.url} \cap Watched(r))]

\* Variants of the catch blocks: one that leaves the loop of candidate paths,
\* one that lets the failure out to POST's catch, one that tries again.
ProbeCatchBreaks(r) == Fetch(r, "home", 1, r.baseUrl)
HomeCatchRethrows(r) == Respond(r, ErrorPayload(500))
ApiCatchRetries(r) == Api(r, r.i)

\* The catch blocks: where the handler goes on when a fetch or the reading
\* of a body throws.
ProbeCatch(r) == Probe(r, r.i + 1)
HomeCatch(r) == NotFound(r)
\* As if the catch of Tier A returned for the first link fetched only, and
\* went on to the next link for the others.
TierACatchFirstOnly(r) ==
  IF \A k \in 1..(Len(r.calls) - 1) : r.calls[k][1] # "tierA"
    THEN Located(r, [url |-> r.url, html |-> <<>>],
                 [by |-> "tierA", i |-> r.i, res |-> r.res])
    ELSE TierA(r, r.i + 1)

TierACatch(r) ==
  Located(r, [url |-> r.url, html |-> <<>>], [by |-> "tierA", i |-> r.i, res |-> r.res])
TierBCCatch(r) == TierBC(r, r.i + 1)
OutboundCatch(r) == ApiStage(r)
ApiCatch(r) == Api(r, r.i + 1)

\* The acceptance rule as the specification words it, for the history
\* variables: a 2xx response whose final host is the site's, a leading
\* "www." aside, or whose final URL matches an ATS pattern.
Admitted(r, base) ==
  /\ r.ok
  /\ \/ StripWww(ParseUrl(r.url).hostname) = StripWww(ParseUrl(base).hostname)
     \/ \E k \in 1..Len(ATS_PATTERNS) : \E p \in 1..Len(ATS_PATTERNS[k].patterns) :
          Includes(LowerStr(r.url), ATS_PATTERNS[k].patterns[p])

Readable(r) == r.body.kind = "html"

\* A candidate's response was tested: the history of it.
Tested(r, head, admitted, accepted) ==
  [r EXCEPT !.passed = IF @ = 0 /\ admitted THEN r.i ELSE @,
            !.skipped = @ \/ (admitted /\ Readable(head) /\ ~accepted)]

\* ------------------------------------------------------------------------
\* POST, between its awaits

\* A variant that asks the page's HTML before its URL.
IdentifiedByHtmlFirst(r, fromUrl, fromHtml) ==
  [r EXCEPT !.careersUrl = r.careersPage.url, !.atsFromUrl = fromUrl,
            !.atsDetected = IF fromHtml # None THEN fromHtml
                            ELSE IF fromUrl # None THEN fromUrl ELSE @]

\* As if careersUrl were not set from the careers page.
IdentifiedWithoutUrl(r, fromUrl, fromHtml) ==
  [r EXCEPT !.atsFromUrl = fromUrl,
            !.atsDetected = IF fromUrl # None THEN fromUrl
                            ELSE IF fromHtml # None THEN fromHtml ELSE @]

\* The locals POST sets from the careers page, up to the external links.
Identified(r, fromUrl, fromHtml) ==
  [r EXCEPT !.careersUrl = r.careersPage.url, !.atsFromUrl = fromUrl,
            !.atsDetected = IF fromUrl # None THEN fromUrl
                            ELSE IF fromHtml # None THEN fromHtml ELSE @]

\* atsDetected = detectAtsFromUrl(atsUrl) || atsDetected; careersUrl = atsUrl
WithLink(r, atsUrl, ats) ==
  [r EXCEPT !.atsDetected = IF ats # None THEN ats ELSE @, !.careersUrl = atsUrl]

\* await fetchWithTimeout(atsUrl): fetch throws at once, into the catch, on
\* a URL that is not absolute.
Outbound(r) ==
  IF ParseUrl(r.careersUrl) = NoObject THEN ApiStage(r)
  ELSE Fetch(r, "outbound", 1, r.careersUrl)

\* As if a match by the page's HTML, too, kept the external link from being
\* followed.
FollowIfUnmatched(r, links) ==
  IF r.atsFromUrl = None /\ r.atsDetected = UnknownAts /\ r.careersPage.html # <<>>
       /\ links # <<>>
    THEN Outbound(WithLink(r, links[1], detectAtsFromUrl(links[1])))
    ELSE ApiStage(r)

\* if (!atsFromUrl && careersPage.html) ... if (externalAtsLinks.length > 0)
Follow(r, links) ==
  IF r.atsFromUrl = None /\ r.careersPage.html # <<>> /\ links # <<>>
    THEN Outbound(WithLink(r, links[1], detectAtsFromUrl(links[1])))
    ELSE ApiStage(r)

\* if (careersPage) { ... } up to the next await, or the result at once.
Study(r) ==
  IF r.careersPage = NoObject THEN Answered(r)
  ELSE Follow(Identified(r, detectAtsFromUrl(r.careersPage.url),
                         detectAtsFromHtml(r.careersPage.html)),
              externalAtsLinks(r.careersPage.html))

\* if (atsJobCount !== null) liveRoles = atsJobCount; careersUrl = atsRes.url
Scraped(r, count) ==
  [r EXCEPT !.liveRoles = IF count # Null THEN count ELSE @,
            !.careersUrl = r.res.url,
            !.tiers = Append(@, <<"html", "outbound", count>>)]

\* A variant that keeps a count it already has.
KeepFirstCount(liveRolesSoFar, count) ==
  IF liveRolesSoFar # Null THEN liveRolesSoFar ELSE count

\* if (apiCount !== null) liveRoles = apiCount
MergeApiCount(liveRolesSoFar, count) == IF count # Null THEN count ELSE liveRolesSoFar

\* atsFromUrl || detectAtsFromHtml(careersPage.html)
FallbackAts(r) ==
  IF r.atsFromUrl # None THEN r.atsFromUrl ELSE detectAtsFromHtml(r.careersPage.html)

Fallback(r, count) ==
  [r EXCEPT !.liveRoles = count, !.tiers = Append(@, <<"html", "located", count>>)]

\* if (liveRoles === null) liveRoles = countJobsFromHtml(careersPage.html, ...)
Final(r, merged) ==
  IF merged = Null
    THEN Fallback(r, countJobsFromHtml(r.careersPage.html, FallbackAts(r)))
    ELSE [r EXCEPT !.liveRoles = merged]

\* const { url } = await request.json() and the checks of url
Checked(r, body) ==
  IF body.kind \in {"invalid", "null"} THEN Respond(r, ErrorPayload(500))
  ELSE IF body.kind # "object" THEN Respond(r, ErrorPayload(400))
  ELSE IF body.url.type # "string" THEN Respond(r, ErrorPayload(400))
  ELSE IF body.url.s = <<>> THEN Respond(r, ErrorPayload(400))
  ELSE IF ParseUrl(NormalizeUrl(body.url.s)) = NoObject
    THEN Respond(r, ErrorPayload(400))
  ELSE Probe([r EXCEPT !.baseUrl = BaseUrlOf(ParseUrl(NormalizeUrl(body.url.s))),
                       !.companyName = extractCompanyName(NormalizeUrl(body.url.s))],
             1)

\* A response's head is there: a page's, then the API's.
ProbeHead(r, f) ==
  IF f.threw \/ ~f.res.ok THEN ProbeCatch(Failed(r))
  ELSE IF Accepts(f.res.url, r.baseUrl)
    THEN [Tested(Returned(r, f.res), f.res, Admitted(f.res, r.baseUrl), TRUE)
            EXCEPT !.pc = "probeBody"]
    ELSE ProbeCatch(Tested(Returned(r, f.res), f.res, Admitted(f.res, r.baseUrl), FALSE))

HomeHead(r, f) ==
  IF f.threw \/ ~f.res.ok THEN HomeCatch(Failed(r))
  ELSE [Returned(r, f.res) EXCEPT !.pc = "homeBody"]

TierAHead(r, f) ==
  IF f.threw THEN TierACatch(Failed(r))
  ELSE IF ~f.res.ok THEN TierA(Failed(r), r.i + 1)
  ELSE [Returned(r, f.res) EXCEPT !.pc = "tierABody"]

TierBCHead(r, f) ==
  IF f.threw \/ ~f.res.ok THEN TierBCCatch(Failed(r))
  ELSE IF Accepts(f.res.url, r.baseUrl)
    THEN [Returned(r, f.res) EXCEPT !.pc = "tierBCBody"]
    ELSE TierBCCatch(Returned(r, f.res))

OutboundHead(r, f) ==
  IF f.threw \/ ~f.res.ok THEN OutboundCatch(Failed(r))
  ELSE [Returned(r, f.res) EXCEPT !.pc = "outboundBody"]

ApiHead(r, f) ==
  IF f.threw \/ ~f.res.ok THEN ApiCatch(Failed(r))
  ELSE [Returned(r, f.res) EXCEPT !.pc = "apiBody"]

\* The page a response gives, and the call site it came from.
PageOf(r) == [url |-> r.res.url, html |-> r.res.body.html]
From(r, site) == [by |-> site, i |-> r.i, res |-> r.res]

\* res.json() is there: the answer, or on to what follows.
ApiData(r, count) == IF count # Null THEN Counted(r, count, TRUE) ELSE ApiCatch(r)

\* ------------------------------------------------------------------------
\* The steps of a request

Receive ==
  /\ pc = "request"
  /\ Becomes(Checked(Cur, request))

ProbeResponse ==
  /\ pc = "probe"
  /\ \E o \in ProbeOutcomes(i, url) :
       Ends(o, timer) /\ Becomes(ProbeHead(Cur, fetchWithTimeout(o)))

ProbeBody ==
  /\ pc = "probeBody" /\ BodyEnds(res.body, timer)
  /\ Becomes(IF Readable(res) THEN Located(Cur, PageOf(Cur), From(Cur, "probe"))
             ELSE ProbeCatch(Cur))

HomeResponse ==
  /\ pc = "home"
  /\ \E o \in PageOutcomes(url, HomePages) :
       Ends(o, timer) /\ Becomes(HomeHead(Cur, fetchWithTimeout(o)))

HomeBody ==
  /\ pc = "homeBody" /\ BodyEnds(res.body, timer)
  /\ Becomes(IF Readable(res) THEN Mine(Cur, res.body.html) ELSE HomeCatch(Cur))

TierAResponse ==
  /\ pc = "tierA"
  /\ \E o \in PageOutcomes(url, CareersPages) :
       Ends(o, timer) /\ Becomes(TierAHead(Cur, fetchWithTimeout(o)))

TierABody ==
  /\ pc = "tierABody" /\ BodyEnds(res.body, timer)
  /\ Becomes(IF Readable(res) THEN Located(Cur, PageOf(Cur), From(Cur, "tierA"))
             ELSE TierACatch(Cur))

TierBCResponse ==
  /\ pc = "tierBC"
  /\ \E o \in PageOutcomes(url, CareersPages) :
       Ends(o, timer) /\ Becomes(TierBCHead(Cur, fetchWithTimeout(o)))

TierBCBody ==
  /\ pc = "tierBCBody" /\ BodyEnds(res.body, timer)
  /\ Becomes(IF Readable(res) THEN Located(Cur, PageOf(Cur), From(Cur, "tierBC"))
             ELSE TierBCCatch(Cur))

Identify ==
  /\ pc = "located"
  /\ Becomes(Study(Cur))

OutboundResponse ==
  /\ pc = "outbound"
  /\ \E o \in PageOutcomes(url, CareersPages) :
       Ends(o, timer) /\ Becomes(OutboundHead(Cur, fetchWithTimeout(o)))

OutboundBody ==
  /\ pc = "outboundBody" /\ BodyEnds(res.body, timer)
  /\ Becomes(IF Readable(res)
               THEN ApiStage(Scraped(Cur, countJobsFromHtml(res.body.html, atsDetected)))
               ELSE OutboundCatch(Cur))

ApiResponse ==
  /\ pc = "api"
  /\ \E o \in ApiOutcomes(url) :
       Ends(o, timer) /\ Becomes(ApiHead(Cur, fetchWithTimeout(o)))

ApiBody ==
  /\ pc = "apiBody" /\ BodyEnds(res.body, timer)
  /\ Becomes(IF res.body.kind = "json"
               THEN ApiData(Cur, ApiAnswer(atsDetected, res.body.data))
               ELSE ApiCatch(Cur))

Finish ==
  /\ pc = "counted"
  /\ Becomes(Answered(Final(Cur, MergeApiCount(liveRoles, apiCount))))

Next ==
  \/ Receive
  \/ ProbeResponse \/ ProbeBody
  \/ HomeResponse \/ HomeBody
  \/ TierAResponse \/ TierABody
  \/ TierBCResponse \/ TierBCBody
  \/ Identify
  \/ OutboundResponse \/ OutboundBody
  \/ ApiResponse \/ ApiBody
  \/ Finish

Spec == Init /\ [][Next]_vars

\* ------------------------------------------------------------------------
\* Requests in flight side by side
\*
\* Node runs POST for each request on one thread: a request runs until its
\* next await, and then any request whose awaited answer is there resumes.
\* All that a request keeps between two awaits is in the locals of its own
\* call of POST and of findCareersPage and countJobsViaApi; the module's
\* only bindings, ATS_PATTERNS and CAREERS_PATHS, are const and are only
\* read, and their regular expressions carry the flag i alone, so that a
\* test leaves nothing behind.

\* The requests in flight together.
MaxRequests == 2

\* The bodies of the requests in flight together: they ask in turn for the
\* company by its bare domain and by a page of its www site over http.
TaskBody(p) ==
  IF p % 2 = 1 THEN BodyWithUrl(<<"acme", ".", "com">>)
  ELSE BodyWithUrl(<<" ", "http:", "/", "/", "www", ".", "Acme", ".", "com", "/", "about",
                     " ">>)

\* The network of the requests in flight together.  A GET of the company's
\* site throws or is answered; a GET of a board or of an API is answered.
\* The answer is 2xx, at the URL asked for: a page with a frame, or an
\* object with a list of jobs.
Near(o, asked) ==
  /\ o.kind = "response" /\ o.ok /\ o.url = asked
  /\ \/ /\ o.body.kind = "html"
        /\ \E k \in DOMAIN o.body.html : o.body.html[k].tag = "iframe"
     \/ /\ o.body.kind = "json" /\ o.body.data.kind = "object"
        /\ o.body.data.jobs = JsonArray(MaxJobs)

Resume == [kind |-> "resume"]

\* What the thing a request awaits may answer, by the request's position.
Offers(t) ==
  CASE t.pc = "probe" ->
         {o \in ProbeOutcomes(t.i, t.url) :
            (o.kind = "error" \/ Near(o, t.url)) /\ Ends(o, t.timer)}
    [] t.pc = "home" ->
         {o \in PageOutcomes(t.url, HomePages) :
            (o.kind = "error" \/ Near(o, t.url)) /\ Ends(o, t.timer)}
    [] t.pc \in {"tierA", "tierBC", "outbound"} ->
         {o \in PageOutcomes(t.url, CareersPages) : Near(o, t.url) /\ Ends(o, t.timer)}
    [] t.pc = "api" ->
         {o \in ApiOutcomes(t.url) : Near(o, t.url) /\ Ends(o, t.timer)}
    [] t.pc \in {"probeBody", "homeBody", "tierABody", "tierBCBody", "outboundBody",
                 "apiBody"} ->
         IF BodyEnds(t.res.body, t.timer) THEN {Resume} ELSE {}
    [] t.pc \in {"request", "located", "counted"} -> {Resume}
    [] OTHER -> {}

\* A request in state t, whose body is body, runs from the answer o of what
\* it awaited to its next await.
After(t, body, o) ==
  CASE t.pc = "request" -> Checked(t, body)
    [] t.pc = "probe" -> ProbeHead(t, fetchWithTimeout(o))
    [] t.pc = "probeBody" ->
         IF Readable(t.res) THEN Located(t, PageOf(t), From(t, "probe"))
         ELSE ProbeCatch(t)
    [] t.pc = "home" -> HomeHead(t, fetchWithTimeout(o))
    [] t.pc = "homeBody" ->
         IF Readable(t.res) THEN Mine(t, t.res.body.html) ELSE HomeCatch(t)
    [] t.pc = "tierA" -> TierAHead(t, fetchWithTimeout(o))
    [] t.pc = "tierABody" ->
         IF Readable(t.res) THEN Located(t, PageOf(t), From(t, "tierA"))
         ELSE TierACatch(t)
    [] t.pc = "tierBC" -> TierBCHead(t, fetchWithTimeout(o))
    [] t.pc = "tierBCBody" ->
         IF Readable(t.res) THEN Located(t, PageOf(t), From(t, "tierBC"))
         ELSE TierBCCatch(t)
    [] t.pc = "located" -> Study(t)
    [] t.pc = "outbound" -> OutboundHead(t, fetchWithTimeout(o))
    [] t.pc = "outboundBody" ->
         IF Readable(t.res)
           THEN ApiStage(Scraped(t, countJobsFromHtml(t.res.body.html, t.atsDetected)))
           ELSE OutboundCatch(t)
    [] t.pc = "api" -> ApiHead(t, fetchWithTimeout(o))
    [] t.pc = "apiBody" ->
         IF t.res.body.kind = "json"
           THEN ApiData(t, ApiAnswer(t.atsDetected, t.res.body.data))
           ELSE ApiCatch(t)
    [] t.pc = "counted" -> Answered(Final(t, MergeApiCount(t.liveRoles, t.apiCount)))
    [] OTHER -> t

\* As if atsDetected were a binding of the module, which the request that
\* came in first last wrote.
ResumedShared(own, all) == [own EXCEPT !.st.atsDetected = all[1].st.atsDetected]

\* The locals a request finds when it resumes after an await: the bindings
\* of its own calls, whatever the other requests did in between.
Resumed(own, all) == own

TaskStep(p) ==
  /\ \E o \in Offers(tasks[p].st) :
       tasks' = [tasks EXCEPT
                   ![p] = [request |-> tasks[p].request,
                           heard |-> Append(tasks[p].heard, o),
                           st |-> After(Resumed(tasks[p], tasks).st, tasks[p].request, o)]]
  /\ UNCHANGED <<request, pc, i, url, timer, res, baseUrl, companyName, home, list,
                 careersPage, atsFromUrl, atsDetected, liveRoles, careersUrl, apiCount,
                 response, calls, failedUrls, refetched, passed, skipped, found, tiers,
                 applied>>

ConcurrentInit ==
  /\ request = [kind |-> "null"]
  /\ Starts(Fresh)
  /\ applied = NoObject
  /\ tasks = [p \in 1..MaxRequests |->
                [request |-> TaskBody(p), heard |-> <<>>, st |-> Fresh]]

ConcurrentNext == \E p \in DOMAIN tasks : TaskStep(p)

Concurrent == ConcurrentInit /\ [][ConcurrentNext]_vars

\* ------------------------------------------------------------------------
\* The detection functions on their own

\* The pieces a URL or a text is made of: they name four vendors, one with
\* a capital, and the company.
MaxPieces == 3

Pieces ==
  {<<"Greenhouse", ".", "io", "/">>, <<"jobs", ".", "lever", ".", "co", "/">>,
   <<"ashbyhq", ".", "com", "/">>, <<"workable", ".", "com", "/">>, <<"acme", "/">>}

\* The strings of up to n pieces.
RECURSIVE Pieced(_)
Pieced(n) ==
  IF n = 0 THEN {<<>>}
  ELSE Pieced(n - 1) \cup {piece \o s : piece \in Pieces, s \in Pieced(n - 1)}

DetectFromUrl ==
  /\ applied.of = "none"
  /\ applied' = [of |-> "detectAtsFromUrl", to |-> applied.to,
                 gives |-> detectAtsFromUrl(applied.to)]
  /\ UNCHANGED <<request, pc, i, url, timer, res, baseUrl, companyName, home, list,
                 careersPage, atsFromUrl, atsDetected, liveRoles, careersUrl, apiCount,
                 response, calls, failedUrls, refetched, passed, skipped, found, tiers,
                 tasks>>

DetectFromHtml ==
  /\ applied.of = "none"
  /\ applied' = [of |-> "detectAtsFromHtml", to |-> applied.to,
                 gives |-> detectAtsFromHtml(<< Txt(applied.to) >>)]
  /\ UNCHANGED <<request, pc, i, url, timer, res, baseUrl, companyName, home, list,
                 careersPage, atsFromUrl, atsDetected, liveRoles, careersUrl, apiCount,
                 response, calls, failedUrls, refetched, passed, skipped, found, tiers,
                 tasks>>

DetectionInit ==
  /\ request = [kind |-> "null"]
  /\ Starts(Fresh)
  /\ tasks = <<>>
  /\ applied \in {[of |-> "none", to |-> s, gives |-> None] : s \in Pieced(MaxPieces)}

DetectionNext == DetectFromUrl \/ DetectFromHtml

Detection == DetectionInit /\ [][DetectionNext]_vars

\* ------------------------------------------------------------------------
\* countJobsFromHtml on its own

\* The most nodes of a document.
MaxNodes == 3

\* The nodes a document is made of: elements that vendor and generic
\* selectors match, two job links whose texts differ by a capital only, a
\* job link with a short text, and a text.
Nodes ==
  {El("div", << <<"class", <<"opening">>>> >>, <<>>, 0),
   El("li", << <<"class", <<"job", "-item", " ", "new">>>> >>, <<"designer">>, 0),
   El("div", << <<"class", <<"posting">>>> >>, <<>>, 0),
   El("a", << <<"href", <<"/", "jobs", "/", "1">>>> >>, <<" ", "Jobs", " ", "team">>, 0),
   El("a", << <<"href", <<"/", "apply", "/", "2">>>> >>, <<"jobs", " ", "team", " ">>, 0),
   El("a", << <<"href", <<"/", "role", "/", "3">>>> >>, <<"staff">>, 0),
   Txt(<<"hiring">>)}

\* The documents of up to n nodes.
RECURSIVE Documents(_)
Documents(n) ==
  IF n = 0 THEN {<<>>}
  ELSE Documents(n - 1) \cup {<<node>> \o html : node \in Nodes, html \in Documents(n - 1)}

CountJobs ==
  /\ applied.of = "none"
  /\ applied' = [of |-> "countJobsFromHtml", to |-> applied.to,
                 gives |-> countJobsFromHtml(applied.to.html, applied.to.atsName)]
  /\ UNCHANGED <<request, pc, i, url, timer, res, baseUrl, companyName, home, list,
                 careersPage, atsFromUrl, atsDetected, liveRoles, careersUrl, apiCount,
                 response, calls, failedUrls, refetched, passed, skipped, found, tiers,
                 tasks>>

CountingInit ==
  /\ request = [kind |-> "null"]
  /\ Starts(Fresh)
  /\ tasks = <<>>
  /\ applied \in {[of |-> "none", to |-> [html |-> html, atsName |-> atsName],
                    gives |-> Null] :
                     html \in Documents(MaxNodes),
                     atsName \in {"Greenhouse", "Lever", "SmartRecruiters", None}}

Counting == CountingInit /\ [][CountJobs]_vars

\* ------------------------------------------------------------------------
\* Properties

\* The request carries a URL that parses after normalisation.
ValidRequest ==
  /\ request.kind = "object" /\ request.url.type = "string"
  /\ request.url.s # <<>>
  /\ ParseUrl(NormalizeUrl(request.url.s)) # NoObject

Sites(S) == {k \in 1..Len(calls) : calls[k][1] \in S}
Answers(T) == {k \in 1..Len(tiers) : tiers[k][1] \in T /\ tiers[k][3] # Null}

\* POST has answered with a ResearchResult.
Researched == pc = "done" /\ response.kind = "result"

\* C1 (as amended): the candidate paths are fetched in CAREERS_PATHS order,
\* the homepage only after the last of them; the page the probe returns is
\* that of the first path whose response is accepted and whose body is read,
\* and after it no later path and no homepage is fetched.
C1_FirstReadableCandidateWins ==
  /\ \A k \in Sites({"probe"}) :
       calls[k] = <<"probe", k, Resolve(CAREERS_PATHS[k], baseUrl)>>
  /\ \A k \in Sites({"home"}) : k = Len(CAREERS_PATHS) + 1
  /\ ~skipped
  /\ found.by = "probe" =>
       /\ Admitted(found.res, baseUrl) /\ Readable(found.res)
       /\ careersPage = [url |-> found.res.url, html |-> found.res.body.html]
       /\ Sites({"home"}) = {}
       /\ \A k \in Sites({"probe"}) : k <= found.i

\* C1, its case: the second path's page is returned after the first path's
\* response was accepted and its body could not be read.
C1_Witness ==
  /\ pc = "located" /\ found.by = "probe" /\ found.i = 2 /\ passed = 1

\* C1 as stated: once a path's response is accepted, no later path and no
\* homepage is fetched.
C1_AcceptedShortCircuits ==
  passed # 0 =>
    /\ Sites({"home"}) = {}
    /\ \A k \in Sites({"probe"}) : k <= passed

\* C2: a page returned by the candidate probe or by the Tier B/C links is
\* that of a 2xx response whose final host is the site's, a leading "www."
\* aside, or whose final URL matches an ATS pattern.
C2_ReturnedPageIsAccepted ==
  found.by \in {"probe", "tierBC"} =>
    /\ Admitted(found.res, baseUrl)
    /\ careersPage.url = found.res.url

\* C2, its case: Tier B/C returns the page of a link that redirected to an
\* ATS, after a link whose response ended on a foreign host.
C2_Witness ==
  /\ found.by = "tierBC" /\ found.i > 1
  /\ DomainOf(found.res.url) # DomainOf(baseUrl)

\* C3 as stated: when the API tier returns a count, countJobsFromHtml ran on
\* no page of the request.
C3_ApiCountMeansNoHtmlTier ==
  (pc \in {"counted", "done"} /\ apiCount # Null) =>
    \A k \in 1..Len(tiers) : tiers[k][1] # "html"

\* The length of the job array in a vendor's answer, Null when there is none.
JobArray(atsName, data) ==
  IF atsName = "Lever"
    THEN (IF data.kind = "array" THEN data.len ELSE Null)
    ELSE IF data.kind = "object" /\ data.jobs # NoObject /\ data.jobs.kind = "array"
      THEN data.jobs.len
      ELSE Null

\* The last fetch was the vendor API's and answered 2xx with JSON.
ApiSucceeded ==
  /\ calls # <<>> /\ calls[Len(calls)][1] = "api"
  /\ res # NoObject /\ res.ok /\ res.body.kind = "json"

\* C4: when the ATS is Greenhouse, Ashby or Lever and the vendor API answers
\* with a job array of length n, liveRoles is n.
C4_ApiCountWins ==
  (Researched /\ atsDetected \in {"Greenhouse", "Ashby", "Lever"} /\ ApiSucceeded
     /\ JobArray(atsDetected, res.body.data) # Null)
    => response.liveRoles = JobArray(atsDetected, res.body.data)

\* C4, its case: the API answers with an empty array after the outbound
\* page's HTML gave a count.
C4_Witness ==
  /\ Researched /\ ApiSucceeded /\ response.liveRoles = 0
  /\ Answers({"html"}) # {}

\* C5: a request with a valid URL is never answered with an error payload.
C5_ValidUrlGetsResult ==
  (pc = "done" /\ ValidRequest) => response.kind = "result"

\* C5, its case: a result after a candidate's fetch failed, the homepage's
\* link was followed and the vendor API gave no answer.
C5_Witness ==
  /\ Researched /\ failedUrls # {} /\ Sites({"tierA", "tierBC"}) # {}
  /\ \E k \in 1..Len(tiers) : tiers[k] = <<"api", "api", Null>>

\* C6 as stated: a request without a usable URL is answered with a 4xx error
\* payload, and no fetch is issued for it.
C6_InvalidInputIs4xx ==
  (pc = "done" /\ ~ValidRequest) =>
    /\ response.kind = "error" /\ response.status = 400
    /\ calls = <<>>

\* C7: when findCareersPage returns null the result has careersUrl null,
\* atsDetected "Unknown / Custom ATS" and liveRoles null, and neither the
\* vendor API nor countJobsFromHtml is called.
C7_NotFoundIsEmpty ==
  (pc \in {"located", "done"} /\ ValidRequest /\ careersPage = NoObject) =>
    /\ Sites({"outbound", "api"}) = {} /\ tiers = <<>>
    /\ pc = "done" =>
         /\ response.kind = "result"
         /\ response.careersUrl = NoString
         /\ response.atsDetected = UnknownAts
         /\ response.liveRoles = Null

\* C7, its case: every candidate and every link of the homepage was tried
\* and none gave a page.
C7_Witness ==
  /\ Researched /\ careersPage = NoObject /\ Sites({"tierBC"}) # {}

\* C8 as stated: every network call ends, the reading of the body included:
\* a fetch in flight has its timer armed, and a body being read either ends
\* by itself or is ended by the timer, so that the request goes on.
C8_EveryCallEnds ==
  /\ pc \in {"probe", "home", "tierA", "tierBC", "outbound", "api"} => timer
  /\ pc \in {"probeBody", "homeBody", "tierABody", "tierBCBody", "outboundBody",
              "apiBody"} => BodyEnds(res.body, timer)

\* C9 (as amended): a call site makes a single attempt; no call site, at a
\* given position of its loop, fetches twice within a request.
C9_SingleAttemptPerCall ==
  \A a, b \in 1..Len(calls) :
    (calls[a][1] = calls[b][1] /\ calls[a][2] = calls[b][2]) => a = b

\* C9, its case: a URL whose fetch failed is named again by a later call
\* site, which fetches it once.
C9_Witness == pc = "done" /\ refetched

\* C9 as stated: no URL whose fetch failed is requested again.
C9_FailedUrlNotRequestedAgain == ~refetched

\* C10: liveRoles is a natural number or null; it is null exactly when no
\* counting tier that ran gave an answer, and 0 only when the vendor API
\* answered with an empty job array.
C10_LiveRolesIsCountOrNull ==
  Researched =>
    /\ response.liveRoles \in Nat \/ response.liveRoles = Null
    /\ response.liveRoles = Null <=> Answers({"api", "html"}) = {}
    /\ response.liveRoles = 0 =>
         ApiSucceeded /\ JobArray(atsDetected, res.body.data) = 0

\* C10, its case: the API and the HTML of the careers page both ran and
\* neither gave an answer.
C10_Witness ==
  /\ Researched /\ response.liveRoles = Null
  /\ \E k \in 1..Len(tiers) : tiers[k] = <<"api", "api", Null>>
  /\ \E k \in 1..Len(tiers) : tiers[k] = <<"html", "located", Null>>

\* The homepage link that Tier A fetched for the page it returned.
TierALink == list[found.i]

\* Tier A returned the page of a 2xx response whose body it read.
TierAServed ==
  found.by = "tierA" /\ found.res # NoObject /\ Readable(found.res)

\* C11 (as amended): a page that Tier A returns from a fetch that succeeded
\* comes from one of the first three ATS links of the homepage and carries the
\* final URL of that link's response, on whatever host it is; when the
\* response stayed at the link's URL, the result's careersUrl is the link's
\* target and its atsDetected is the vendor of the ATS link.
C11_AtsLinkIsTrusted ==
  TierAServed =>
    /\ found.i \in 1..3
    /\ TierALink = atsLinks(home)[found.i]
    /\ detectAtsFromUrl(TierALink) # None
    /\ found.res.ok
    /\ careersPage.url = found.res.url
    /\ (Researched /\ found.res.url = Resolve(TierALink, baseUrl)) =>
         /\ response.careersUrl = Resolve(TierALink, baseUrl)
         /\ response.atsDetected = detectAtsFromUrl(TierALink)

\* C11, its case: the homepage's iframe to boards.greenhouse.io/acme answers
\* with a page that names another vendor, and the result says Greenhouse.
C11_Witness ==
  /\ Researched /\ TierAServed
  /\ TierALink = GhBoard /\ response.careersUrl = GhBoard
  /\ detectAtsFromHtml(careersPage.html) = "Ashby"
  /\ response.atsDetected = "Greenhouse"

\* C11 as stated: a page that Tier A returns from a fetch that succeeded has
\* the link's target as its URL, and the result reports the vendor of the
\* ATS link.
C11_AtsLinkTargetIsReturned ==
  TierAServed =>
    /\ careersPage.url = Resolve(TierALink, baseUrl)
    /\ Researched => response.atsDetected = detectAtsFromUrl(TierALink)

\* C12 as stated: the timeouts of the fetches a request issues one after the
\* other, each bounded by timeoutMs, sum to less than ten seconds.
C12_TimeoutsSumUnderDeadline == Len(calls) * timeoutMs < 10 * 1000


\* What one request, alone in the process, has computed from its body and
\* from the answers to its own calls, in their order.
RECURSIVE Replay(_, _)
Replay(body, heard) ==
  IF heard = <<>> THEN Fresh
  ELSE After(Replay(body, SubSeq(heard, 1, Len(heard) - 1)), body, heard[Len(heard)])

C14_WebsiteIsSchemeAndHost ==
  Researched =>
    LET typed == Trim(request.url.s)
        website == response.website
    IN /\ Len(website) > 3
       /\ website[1] \in Schemes /\ website[2] = "/" /\ website[3] = "/"
       /\ \A k \in 4..Len(website) : website[k] \in HostTokens
       /\ website[1] = (IF typed[1] \in Schemes THEN typed[1] ELSE "https:")
       /\ LowerStr(IF typed[1] \in Schemes
                     THEN SubSeq(typed, 4, Len(website))
                     ELSE SubSeq(typed, 1, Len(website) - 3))
            = SubSeq(website, 4, Len(website))

\* A request for " http://www.Acme.com/about " was answered with the website
\* http://www.acme.com.
C14_Witness ==
  /\ Researched
  /\ request.url.s[1] = " " /\ request.url.s[2] = "http:"
  /\ response.website = <<"http:", "/", "/", "www", ".", "acme", ".", "com">>


\* The fetch of a Tier A link threw, and findCareersPage returned.
TierAThrew == found.by = "tierA" /\ found.res = NoObject

StageRank(site) ==
  CASE site = "probe" -> 1 [] site = "home" -> 2 [] site = "tierA" -> 3
    [] site = "tierBC" -> 4 [] OTHER -> 5

\* C16 (as amended): the stages of findCareersPage run in order.  The
\* homepage is fetched only after every candidate path was fetched and none
\* gave a page; the links are fetched only after the homepage was read;
\* every one of the first three ATS links that resolves is fetched before
\* any careers link, and a careers link is fetched only if Tier A returned
\* nothing; a homepage whose fetch throws or whose status is not 2xx gives
\* not found, with no further fetch.
C16_StagesInOrder ==
  /\ \A k \in 1..(Len(calls) - 1) :
       StageRank(calls[k][1]) <= StageRank(calls[k + 1][1])
  /\ Sites({"home"}) # {} =>
       /\ found.by # "probe"
       /\ Cardinality(Sites({"probe"})) = Len(CAREERS_PATHS)
  /\ Sites({"tierA", "tierBC"}) # {} => home # <<>> /\ Cardinality(Sites({"home"})) = 1
  /\ Sites({"tierBC"}) # {} => found.by # "tierA"
  /\ pc = "tierBC" =>
       /\ found = NoFound
       /\ LET links == Slice(atsLinks(home), 3)
          IN \A k \in 1..Len(links) :
               Resolve(links[k], baseUrl) # NoString =>
                 \E j \in Sites({"tierA"}) :
                   calls[j] = <<"tierA", k, Resolve(links[k], baseUrl)>>
  /\ pc = "home" =>
       \A o \in {[kind |-> "error"], Answer(FALSE, url, BrokenBody)} :
         [HomeHead(Cur, fetchWithTimeout(o)) EXCEPT !.failedUrls = failedUrls]
           = [Cur EXCEPT !.pc = "located", !.careersPage = NoObject,
                         !.found = NoFound, !.timer = FALSE]

\* The homepage's ATS link answered non-2xx, and then its careers link gave
\* the page.
C16_Witness ==
  /\ pc = "located" /\ found.by = "tierBC"
  /\ Sites({"tierA"}) # {}
  /\ atsLinks(home) # <<>>

\* C16 (as stated): the homepage is fetched only if no candidate path's
\* response was accepted, and a careers link only if Tier A returned nothing.
C16_HomepageOnlyIfNoneAccepted ==
  /\ pc = "home" => passed = 0
  /\ Sites({"tierBC"}) # {} => found.by # "tierA"


\* C17 (as amended): the first external ATS link of the careers page is
\* followed exactly when the page's own URL matches no ATS pattern, whether
\* or not its HTML matched: it then becomes careersUrl, and its vendor
\* atsDetected.  When the page's URL matches, no external link is fetched,
\* and careersUrl and atsDetected are the page's URL and its vendor.
C17_FollowedUnlessUrlMatched ==
  /\ (pc = "located" /\ careersPage # NoObject) =>
       LET next == Study(Cur)
           links == externalAtsLinks(careersPage.html)
           direct == detectAtsFromUrl(careersPage.url)
       IN /\ next.pc = "outbound" =>
               direct = None /\ links # <<>> /\ next.url = links[1]
          /\ (direct = None /\ links # <<>>) =>
               /\ next.careersUrl = links[1]
               /\ next.atsDetected = detectAtsFromUrl(links[1])
               /\ next.pc = "outbound" \/ ParseUrl(links[1]) = NoObject
          /\ direct # None =>
               /\ next.pc # "outbound"
               /\ next.careersUrl = careersPage.url /\ next.atsDetected = direct
  /\ (Researched /\ careersPage # NoObject /\ atsFromUrl # None) =>
       /\ Sites({"outbound"}) = {}
       /\ response.careersUrl = careersPage.url
       /\ response.atsDetected = detectAtsFromUrl(careersPage.url)

\* The page at a candidate path names Ashby in its HTML and frames an Ashby
\* board: the frame was fetched, and its URL is the careersUrl.
C17_Witness ==
  /\ Researched /\ found.by = "probe"
  /\ detectAtsFromUrl(careersPage.url) = None
  /\ detectAtsFromHtml(careersPage.html) = "Ashby"
  /\ Sites({"outbound"}) # {}
  /\ response.careersUrl = AshbyBoard /\ response.careersUrl # careersPage.url

\* C17 (as stated): an external link is fetched only when neither the URL
\* nor the HTML of the careers page matched.
C17_FollowedOnlyIfNoDirectMatch ==
  Sites({"outbound"}) # {} =>
    /\ detectAtsFromUrl(careersPage.url) = None
    /\ detectAtsFromHtml(careersPage.html) = None


\* C18: once an external ATS link of the careers page is fetched, the result's
\* careersUrl is the URL of a page that was fetched and read, and the HTML
\* tier counts on that page's HTML only, never on the HTML of the page the
\* link was found on.
C18_RefetchedPageIsCareersPage ==
  (Researched /\ Sites({"outbound"}) # {}) =>
    /\ \E k \in 1..Len(tiers) :
         tiers[k][1] = "html" /\ tiers[k][2] = "outbound"
    /\ \A k \in 1..Len(tiers) : tiers[k][1] = "html" => tiers[k][2] = "outbound"


\* The rules of ATS_PATTERNS with a pattern in s, and the checks of
\* HtmlChecks whose keyword is in s, s in lower case.
UrlHits(s) ==
  {k \in 1..Len(ATS_PATTERNS) :
     \E p \in 1..Len(ATS_PATTERNS[k].patterns) : Includes(s, ATS_PATTERNS[k].patterns[p])}
HtmlHits(s) == {k \in 1..Len(HtmlChecks) : Includes(s, HtmlChecks[k][1])}
Least(S) == CHOOSE k \in S : \A h \in S : k <= h

\* C19: detectAtsFromUrl gives the vendor of the first rule of the table
\* with a pattern in the URL, whatever the case of the URL and wherever in
\* it the patterns are, and none when no rule has one; detectAtsFromHtml
\* gives the vendor of the first check whose keyword is in the lower-cased
\* HTML, and none when there is none.
C19_FirstRuleInTableOrder ==
  /\ (applied # NoObject /\ applied.of = "detectAtsFromUrl") =>
       applied.gives = IF UrlHits(LowerStr(applied.to)) = {} THEN None
                       ELSE ATS_PATTERNS[Least(UrlHits(LowerStr(applied.to)))].name
  /\ (applied # NoObject /\ applied.of = "detectAtsFromHtml") =>
       applied.gives = IF HtmlHits(LowerStr(applied.to)) = {} THEN None
                       ELSE HtmlChecks[Least(HtmlHits(LowerStr(applied.to)))][2]

\* A URL names Workable, then Lever, then Greenhouse with a capital: the
\* vendor is Greenhouse, the first of the three in the table.
C19_Witness ==
  /\ applied # NoObject /\ applied.of = "detectAtsFromUrl"
  /\ applied.to = <<"workable", ".", "com", "/", "jobs", ".", "lever", ".", "co", "/",
                    "Greenhouse", ".", "io", "/">>
  /\ applied.gives = "Greenhouse"


\* The elements of a set of positions, in order.
InOrder(S) ==
  [n \in 1..Cardinality(S) |-> CHOOSE k \in S : Cardinality({j \in S : j <= k}) = n]

\* The links of the homepage by href and by text, as positions of anchors:
\* plausible tells whether a link by text must have an href of more than one
\* character.
HrefOfNode(k) == OrEmpty(Attr(home[k], "href"), <<>>)
ByHref == {k \in 1..Len(home) : IsAnchor(home[k]) /\ IsCareersHref(HrefOfNode(k))}
ByText(plausible) ==
  {k \in 1..Len(home) :
     /\ IsAnchor(home[k])
     /\ LowerStr(Trim(TextOf(home, k)))
          \in { <<"careers">>, <<"jobs">>, <<"work", " ", "with", " ", "us">>,
                <<"join", " ", "us">> }
     /\ plausible => Length(HrefOfNode(k)) > 1
     /\ \A j \in ByHref : HrefOfNode(j) # HrefOfNode(k)}
FirstByText(plausible) ==
  {k \in ByText(plausible) :
     \A j \in ByText(plausible) : j < k => HrefOfNode(j) # HrefOfNode(k)}
Candidates(plausible) ==
  [n \in 1..Cardinality(ByHref) |-> HrefOfNode(InOrder(ByHref)[n])]
    \o [n \in 1..Cardinality(FirstByText(plausible)) |->
          HrefOfNode(InOrder(FirstByText(plausible))[n])]

\* After the response of a careers link passed the test: its page is
\* returned.
TierBCReturns(r) ==
  /\ r.pc = "located" /\ r.found.by = "tierBC" /\ r.found.i = i
  /\ r.careersPage = [url |-> res.url, html |-> res.body.html]

\* C20 (as amended): the Tier B/C list holds the hrefs of all links by href,
\* in document order, then those of the links by text whose href is longer
\* than one character and not yet in the list; its first five entries are
\* fetched in order, those that do not resolve left out; the page returned
\* is that of the first whose response passes the acceptance test and whose
\* body is read, and a failure to read the body lets the search go on.
C20_CareersLinksInOrder ==
  /\ pc = "tierBC" =>
       /\ list = Slice(Candidates(TRUE), 5)
       /\ calls[Len(calls)] = <<"tierBC", i, Resolve(list[i], baseUrl)>>
       /\ \A k \in 1..(i - 1) :
            \/ Resolve(list[k], baseUrl) = NoString
            \/ \E j \in Sites({"tierBC"}) :
                 j < Len(calls) /\ calls[j] = <<"tierBC", k, Resolve(list[k], baseUrl)>>
  /\ \A j, k \in Sites({"tierBC"}) : j < k => calls[j][2] < calls[k][2]
  /\ pc = "tierBCBody" =>
       /\ Admitted(res, baseUrl)
       /\ IF Readable(res)
            THEN TierBCReturns(Located(Cur, PageOf(Cur), From(Cur, "tierBC")))
            ELSE LET next == TierBCCatch(Cur)
                 IN next.found = NoFound /\ (next.pc = "tierBC" => next.i > i)
  /\ found.by = "tierBC" =>
       /\ Admitted(found.res, baseUrl) /\ Readable(found.res)
       /\ \A k \in Sites({"tierBC"}) : calls[k][2] <= found.i

\* The second careers link gives the page after the response of the first
\* passed the test and its body could not be read.
C20_Witness ==
  /\ pc = "located" /\ found.by = "tierBC" /\ found.i = 3
  /\ Len(list) = 5
  /\ \E k \in Sites({"tierBC"}) : calls[k][2] = 1 /\ calls[k][3] \in failedUrls

\* C20 (as stated): the list holds every link by text that is not in it
\* yet, and a careers link whose response passes the acceptance test is the
\* one returned.
C20_FirstPassingIsReturned ==
  /\ pc = "tierBC" => list = Slice(Candidates(FALSE), 5)
  /\ pc = "tierBCBody" =>
       LET next == IF Readable(res) THEN Located(Cur, PageOf(Cur), From(Cur, "tierBC"))
                   ELSE TierBCCatch(Cur)
       IN next.found.by = "tierBC" /\ next.found.i = i


\* The slug a vendor's pattern finds in the careers URL, NoString when it
\* finds none, and the URLs the API tier is to ask, in order: for Greenhouse
\* the board of the slug found, if any, then the board of the company's
\* lower-cased name; for Ashby and Lever the board of the slug found, or of
\* the company's lower-cased name when none is found.
SlugFound ==
  CASE atsDetected = "Greenhouse" ->
         Capture(careersUrl, <<"boards", ".", "greenhouse", ".", "io", "/">>)
    [] atsDetected = "Ashby" ->
         Capture(careersUrl, <<"jobs", ".", "ashbyhq", ".", "com", "/">>)
    [] atsDetected = "Lever" ->
         Capture(careersUrl, <<"jobs", ".", "lever", ".", "co", "/">>)
    [] OTHER -> NoString
Boards ==
  CASE atsDetected = "Greenhouse" ->
         (IF SlugFound # NoString THEN <<GreenhouseApi(SlugFound)>> ELSE <<>>)
           \o <<GreenhouseApi(LowerStr(companyName))>>
    [] atsDetected = "Ashby" ->
         <<AshbyApi(IF SlugFound # NoString THEN SlugFound ELSE LowerStr(companyName))>>
    [] atsDetected = "Lever" ->
         <<LeverApi(IF SlugFound # NoString THEN SlugFound ELSE LowerStr(companyName))>>
    [] OTHER -> <<>>

\* An API call that gave no count leaves no response and no count behind:
\* the next board is asked, or countJobsViaApi returns null.
NoAnswer(next) ==
  /\ next.response = NoResponse /\ next.liveRoles = liveRoles
  /\ \/ next.pc = "api" /\ next.i = i + 1
     \/ next.pc = "counted" /\ next.apiCount = Null /\ i = Len(Boards)

\* C21: the API tier runs only with a known vendor; it asks the board of the
\* slug found in the careers URL, and that of the company's lower-cased name
\* only when no slug is found, Greenhouse asking both in this order; a call
\* that throws, a status that is not 2xx, a body that is not JSON and JSON
\* of another shape give no answer, never an error.
C21_ApiTierAsksTheVendorsBoard ==
  /\ (Sites({"api"}) # {} \/ \E k \in 1..Len(tiers) : tiers[k][1] = "api") =>
       atsDetected # UnknownAts /\ careersPage # NoObject
  /\ Sites({"api"}) # {} =>
       LET boards == Boards
       IN \A k \in Sites({"api"}) :
            /\ calls[k][2] \in 1..Len(boards)
            /\ calls[k][3] = boards[calls[k][2]]
            /\ calls[k][2] > 1 => (k > 1 /\ calls[k - 1] = <<"api", 1, boards[1]>>)
  /\ pc = "api" =>
       \A o \in {[kind |-> "error"], Answer(FALSE, url, BrokenBody)} :
         NoAnswer(After(Cur, request, o))
  /\ (pc = "apiBody" /\ BodyEnds(res.body, timer)) =>
       \/ /\ res.body.kind = "json"
          /\ IF atsDetected = "Lever" THEN res.body.data.kind = "array"
             ELSE /\ res.body.data.kind = "object" /\ res.body.data.jobs # NoObject
                  /\ res.body.data.jobs.kind = "array"
       \/ NoAnswer(After(Cur, request, Resume))
  /\ (pc = "done" /\ Sites({"api"}) # {}) => response.kind = "result"

\* The careers page framed an Ashby board whose slug is Acme: the API was
\* asked for the board Acme, not acme, its answer was null JSON, and the
\* request ended with a result.
C21_Witness ==
  /\ Researched /\ atsDetected = "Ashby"
  /\ SlugFound = <<"Acme">> /\ companyName = <<"Acme">>
  /\ \E k \in Sites({"api"}) : calls[k][3] = AshbyApi(<<"Acme">>)
  /\ \E k \in 1..Len(tiers) : tiers[k] = <<"api", "api", Null>>


\* The selectors tried on a document for a vendor, the vendor's first, and
\* those of them that match an element of the document.
Tried(atsName) == VendorSelectors(atsName) \o genericSelectors
Matching(html, atsName) ==
  {k \in 1..Len(Tried(atsName)) : Count(html, Tried(atsName)[k]) > 0}

\* The distinct lower-cased texts of the job-like anchors of a document with
\* a text of 6 to 199 characters.
JobTexts(html) ==
  {LowerStr(Trim(TextOf(html, k))) :
     k \in {j \in 1..Len(html) :
             /\ IsAnchor(html[j])
             /\ IsJobHref(OrEmpty(Attr(html[j], "href"), <<>>))
             /\ Length(Trim(TextOf(html, j))) \in 6..199}}

\* C22: countJobsFromHtml gives the number of elements of the first selector
\* that matches any, the vendor's selectors before the generic ones, each in
\* its listed order; when none matches, the number of distinct lower-cased
\* texts of the job-like anchors with a text of 6 to 199 characters, and
\* absent when there is none.
C22_FirstMatchingSelectorCounts ==
  (applied # NoObject /\ applied.of = "countJobsFromHtml") =>
    LET html == applied.to.html
        hits == Matching(applied.to.html, applied.to.atsName)
    IN applied.gives =
         IF hits # {} THEN Count(html, Tried(applied.to.atsName)[Least(hits)])
         ELSE IF JobTexts(html) # {} THEN Cardinality(JobTexts(html))
         ELSE Null

\* A Lever page with a job item ahead of two postings counts 2, the
\* vendor's postings, not the item the first generic selector matches.
C22_Witness ==
  /\ applied # NoObject /\ applied.of = "countJobsFromHtml"
  /\ applied.to.atsName = "Lever"
  /\ Len(applied.to.html) = 3
  /\ applied.to.html[1].tag = "li" /\ applied.to.html[2].tag = "div"
  /\ applied.to.html[2] = applied.to.html[3]
  /\ Attr(applied.to.html[2], "class") = <<"posting">>
  /\ applied.gives = 2


\* C23: in every ResearchResult careersUrl is null exactly when
\* findCareersPage returned null; a known vendor in atsDetected and a count
\* in liveRoles each come with a careersUrl.
C23_CareersUrlIffLocated ==
  Researched =>
    /\ response.careersUrl = NoString <=> (careersPage = NoObject /\ found = NoFound)
    /\ response.careersUrl # <<>>
    /\ response.atsDetected # UnknownAts => response.careersUrl # NoString
    /\ response.liveRoles # Null => response.careersUrl # NoString

\* A careers page was found on which no vendor and no job was recognised:
\* the result has its URL all the same.
C23_Witness ==
  /\ Researched /\ found.by = "tierBC"
  /\ response.atsDetected = UnknownAts /\ response.liveRoles = Null
  /\ response.careersUrl = careersPage.url /\ response.careersUrl # NoString

====
